---- MODULE Spec2Model ----
(***************************************************************************)
(* The relay connection wrappers of package relay: tcpConn and udpConn     *)
(* (deferred handshake-response check on the first Read, pending header    *)
(* merged with the first Write, 2-byte big-endian datagram framing) and    *)
(* bindUDPConn (framing only), and the address and metadata accessors of   *)
(* bindConn and bindUDPConn.                                               *)
(*                                                                         *)
(* The read path (once, the inbound stream) and the write path (mu, the    *)
(* contents of wbuf, the outbound transport) share no mutable state: Read  *)
(* only tests the wbuf pointer, which is never reassigned. Spec therefore  *)
(* runs the concurrent writers against a transport that may fail,          *)
(* SpecRead runs the concurrent readers against a peer-fed stream, and     *)
(* SpecFrame runs one caller over a loop-back transport. SpecFault runs    *)
(* one caller over a loop-back that may fail, SpecLive is Spec under a     *)
(* fair scheduler, and SpecDuplex puts a reader and the writers on one     *)
(* connection whose peer answers the request header.                       *)
(***************************************************************************)
EXTENDS Integers, Sequences, FiniteSets, TLC

VARIABLES
    kind,       \* which wrapper wraps the transport: "tcp", "udp", "bind",
                \* "bindudp"
    localAddr,  \* c.localAddr of bindConn / bindUDPConn
    remoteAddr, \* c.remoteAddr of bindConn / bindUDPConn
    md,         \* c.md of bindConn / bindUDPConn
    wbufNil,    \* c.wbuf == nil (the pointer is set at wrap time, never reassigned)
    wbuf,       \* the unread bytes of c.wbuf (empty when wbufNil)
    hdr0,       \* the pending header the connection was wrapped with
    mu,         \* holder of c.mu, or NoProc
    done,       \* c.once: f has returned
    onceM,      \* c.once: holder of the Once's own mutex, or NoProc
    out,        \* every c.Conn.Write call so far, in transport order
    inb,        \* bytes that arrived on the transport and are not read yet
    peer,       \* segments the remote peer has still to send
    closed,     \* the inbound stream has ended (EOF or transport failure)
    loop,       \* the transport is a loop-back: accepted bytes arrive on inb
    faulty,     \* the transport's Write may fail or accept a short count
    pool,       \* scratch buffers checked out of bufpool
    pc,         \* each caller's position
    fr,         \* each caller's activation record (arguments, locals, results)
    calls,      \* number of Read/Write calls started
    respRuns,   \* number of readResponse executions
    respErr,    \* what the last readResponse execution returned
    hist        \* every returned call, in order of return

connVars == <<kind, localAddr, remoteAddr, md, wbufNil, hdr0, loop, faulty>>
vars == <<kind, localAddr, remoteAddr, md, wbufNil, wbuf, hdr0, mu, done, onceM,
          out, inb, peer, closed, loop, faulty, pool, pc, fr, calls, respRuns,
          respErr, hist>>

(***************************************************************************)
(* Bounds and program constants                                            *)
(***************************************************************************)
MaxCalls == 3       \* Write calls started in one run of Spec
MaxReads == 2       \* Read calls started in one run of SpecRead
MaxFrameCalls == 4  \* calls started in one run of SpecFrame
HeavyCalls == 2     \* calls started in a run with a largest-size datagram
MaxFaultCalls == 3  \* calls started in one run of SpecFault
MaxUint16 == 65535
Version1 == 1
StatusOK == 0

Writers == {"w1", "w2"}
Readers == {"r1", "r2"}
Caller == "a"
Procs == Writers \cup Readers \cup {Caller}
NoProc == "none"

\* The zero value of a net.Addr and of a Metadata.
NoAddr == "no address"
NoMd == "no metadata"

ErrNil == "nil"
ErrTooLarge == "write: data maximum exceeded"
ErrBadVersion == "bad version"
ErrEOF == "EOF"
ErrUnexpectedEOF == "unexpected EOF"
ErrTransport == "transport write error"

(***************************************************************************)
(* Inputs                                                                  *)
(***************************************************************************)
\* A payload of L bytes whose content depends on the position.
Payload(L) == [i \in 1..L |-> (i % 7) + 1]

Header == <<170, 187>>
HdrBytes == {170, 187}
\* Payloads of the concurrent writers: none holds a header byte.
SmallPayloads == {<<1>>, <<2, 3>>}
\* Payloads of the framing runs: empty, the spec's scenario, both length
\* bytes in use, the largest datagram, and one byte more than the largest.
FramePayloads == {<< >>, <<1, 2, 3>>, Payload(257)}
MaxPayload == Payload(MaxUint16)
OverPayload == Payload(MaxUint16 + 1)
BufLens == {0, 2, 10, 300}
\* Byte counts a failing transport write may have accepted before failing;
\* on the loop-back also one that cuts a frame after its length.
ShortCounts == {0, 1} \cup (IF loop THEN {3} ELSE {})
\* What a recycled scratch buffer may hold where nothing was read into it.
Stale == {0, 204}

Min(a, b) == IF a < b THEN a ELSE b

\* A run that handles a datagram of the largest size, or over it, is
\* HeavyCalls calls long; a framing run needs writes and reads.
Heavy ==
    \/ \E p \in DOMAIN fr : Len(fr[p].b) >= MaxUint16 \/ fr[p].blen >= MaxUint16
    \/ \E i \in DOMAIN hist : Len(hist[i].b) >= MaxUint16
                              \/ hist[i].blen >= MaxUint16
FrameLimit == IF Heavy THEN HeavyCalls ELSE MaxFrameCalls
\* The loop-back that may fail is SpecFault's transport.
FaultLimit == IF Heavy THEN Min(HeavyCalls, MaxFaultCalls) ELSE MaxFaultCalls
CallLimit == IF loop THEN (IF faulty THEN FaultLimit ELSE FrameLimit)
             ELSE MaxCalls
ReadLimit == IF loop THEN (IF faulty THEN FaultLimit ELSE FrameLimit)
             ELSE MaxReads


\* The concatenation of a sequence of byte sequences.
RECURSIVE Flatten(_)
Flatten(ss) == IF ss = << >> THEN << >> ELSE Head(ss) \o Flatten(Tail(ss))

IsPrefix(s, t) == Len(s) <= Len(t) /\ SubSeq(t, 1, Len(s)) = s

(***************************************************************************)
(* encoding/binary, io.ReadFull, the transport                             *)
(***************************************************************************)
\* uint16(v): the conversion keeps the low 16 bits.
ToUint16(v) == v % (MaxUint16 + 1)

\* binary.BigEndian.PutUint16(bb[:], v): the high byte first.
PutUint16LittleEndian(v) == <<v % 256, (v \div 256) % 256>>
PutUint16(v) == <<(v \div 256) % 256, v % 256>>

\* binary.BigEndian.Uint16(bb[:])
Uint16(bb) == bb[1] * 256 + bb[2]

\* io.ReadFull(c.Conn, buf) with len(buf) = want: it returns once want bytes
\* have arrived or the stream has ended; until then the caller blocks.
CanReadFull(want) == Len(inb) >= want \/ closed
ReadFullData(want) == SubSeq(inb, 1, Min(want, Len(inb)))
ReadFullErr(want) ==
    IF Len(inb) >= want THEN ErrNil
    ELSE IF Len(inb) = 0 THEN ErrEOF ELSE ErrUnexpectedEOF
Rest(k) == SubSeq(inb, k + 1, Len(inb))

\* The byte counts c.Conn.Write(bs) may report: all of bs, or, on a transport
\* that fails, a short count together with an error.
Accepts(bs) ==
    {Len(bs)} \cup (IF faulty THEN {k \in ShortCounts : k < Len(bs)} ELSE {})
ConnWriteErr(bs, k) == IF k = Len(bs) THEN ErrNil ELSE ErrTransport

\* c.Conn.Write(bs) by caller p accepting k bytes; part names the statement
\* that issued the write.
ConnWrite(p, bs, part, k) ==
    /\ out' = Append(out, [call |-> fr[p].call, part |-> part,
                           bytes |-> bs, acc |-> k])
    /\ inb' = IF loop THEN inb \o SubSeq(bs, 1, k) ELSE inb

\* The bytes the transport has accepted so far, in order.
Wire == Flatten([i \in 1..Len(out) |-> SubSeq(out[i].bytes, 1, out[i].acc)])

(***************************************************************************)
(* readResponse                                                            *)
(***************************************************************************)
\* The response record is [1 byte: version][1 byte: status].
RespLen == 2
StatusText(status) == IF status = 5 THEN "forbidden" ELSE "unknown"

\* readResponse(r) given what resp.ReadFrom(r) read and returned.
readResponseStatusFirst(rec, rerr) ==
    IF rerr # ErrNil THEN rerr
    ELSE IF rec[2] # StatusOK
         THEN ToString(rec[2]) \o " " \o StatusText(rec[2])
    ELSE IF rec[1] # Version1 THEN ErrBadVersion
    ELSE ErrNil
readResponse(rec, rerr) ==
    IF rerr # ErrNil THEN rerr
    ELSE IF rec[1] # Version1 THEN ErrBadVersion
    ELSE IF rec[2] # StatusOK
         THEN ToString(rec[2]) \o " " \o StatusText(rec[2])
    ELSE ErrNil

(***************************************************************************)
(* Initial states                                                          *)
(***************************************************************************)
\* addr is the addr argument of WriteTo, the addr result of ReadFrom and the
\* result of an accessor.
Fr0 == [op |-> "none", b |-> << >>, blen |-> 0, n |-> 0, err |-> ErrNil, dlen |-> 0,
        data |-> << >>, buf |-> << >>, call |-> 0, path |-> "none",
        addr |-> NoAddr]

InitCommon ==
    /\ mu = NoProc
    /\ done = FALSE
    /\ onceM = NoProc
    /\ out = << >>
    /\ pool = 0
    /\ pc = [p \in Procs |-> "idle"]
    /\ fr = [p \in Procs |-> Fr0]
    /\ calls = 0
    /\ respRuns = 0
    /\ respErr = ErrNil
    /\ hist = << >>

\* tcpConn{Conn, wbuf} / udpConn{Conn, wbuf}: wbuf absent, empty, or holding
\* the cached request header. Neither has address or metadata fields.
InitWrap ==
    /\ localAddr = NoAddr /\ remoteAddr = NoAddr /\ md = NoMd
    /\ wbufNil \in BOOLEAN
    /\ hdr0 \in (IF wbufNil THEN {<< >>} ELSE {<< >>, Header})
    /\ wbuf = hdr0

Init ==
    /\ InitCommon
    /\ kind \in {"tcp", "udp"}
    /\ InitWrap
    /\ inb = << >> /\ peer = << >> /\ closed = FALSE
    /\ loop = FALSE /\ faulty = TRUE

(***************************************************************************)
(* Returning from a call                                                   *)
(***************************************************************************)
Return(p, op, f) ==
    /\ hist' = Append(hist, [call |-> f.call, op |-> op, b |-> f.b,
                             blen |-> f.blen, n |-> f.n, err |-> f.err,
                             data |-> f.data, path |-> f.path,
                             addr |-> f.addr])
    /\ pc' = [pc EXCEPT ![p] = "idle"]
    /\ fr' = [fr EXCEPT ![p] = Fr0]

Goto(p, label) == pc' = [pc EXCEPT ![p] = label]

(***************************************************************************)
(* tcpConn.Write                                                           *)
(***************************************************************************)
\* n = len(b), then c.mu.Lock() is reached.
tcpConn_Write_Call(p, b) ==
    /\ kind = "tcp" /\ pc[p] = "idle" /\ calls < CallLimit
    /\ calls' = calls + 1
    /\ fr' = [fr EXCEPT ![p] = [Fr0 EXCEPT !.b = b, !.n = Len(b),
                                           !.call = calls + 1]]
    /\ Goto(p, "lock")
    /\ UNCHANGED <<connVars, wbuf, mu, done, onceM, out, inb, peer, closed,
                   pool, respRuns, respErr, hist>>

\* c.mu.Lock(): blocks while another caller holds the mutex.
mu_LockAfterCheck(p) ==
    /\ pc[p] = "lock" /\ mu = NoProc /\ done
    /\ mu' = p
    /\ Goto(p, "crit")
    /\ UNCHANGED <<connVars, wbuf, done, onceM, out, inb, peer, closed, pool,
                   fr, calls, respRuns, respErr, hist>>
mu_LockNoExclusion(p) ==
    /\ pc[p] = "lock"
    /\ mu' = p
    /\ Goto(p, "crit")
    /\ UNCHANGED <<connVars, wbuf, done, onceM, out, inb, peer, closed, pool,
                   fr, calls, respRuns, respErr, hist>>
mu_Lock(p) ==
    /\ pc[p] = "lock" /\ mu = NoProc
    /\ mu' = p
    /\ Goto(p, "crit")
    /\ UNCHANGED <<connVars, wbuf, done, onceM, out, inb, peer, closed, pool,
                   fr, calls, respRuns, respErr, hist>>

\* c.wbuf != nil && c.wbuf.Len() > 0
HasPending == ~wbufNil /\ Len(wbuf) > 0

\* c.wbuf.Write(b): append the data to the cached header.
tcpConn_Write_Append(p) ==
    /\ kind = "tcp" /\ pc[p] = "crit" /\ HasPending
    /\ wbuf' = wbuf \o fr[p].b
    /\ fr' = [fr EXCEPT ![p].path = "merged"]
    /\ Goto(p, "flush")
    /\ UNCHANGED <<connVars, mu, done, onceM, out, inb, peer, closed, pool,
                   calls, respRuns, respErr, hist>>

\* _, err = c.Conn.Write(c.wbuf.Bytes()): the count is dropped, n stays len(b).
tcpConn_Write_FlushCount(p) ==
    /\ kind = "tcp" /\ pc[p] = "flush"
    /\ \E k \in Accepts(wbuf) :
          /\ ConnWrite(p, wbuf, "merged", k)
          /\ fr' = [fr EXCEPT ![p].err = ConnWriteErr(wbuf, k), ![p].n = k]
    /\ Goto(p, "reset")
    /\ UNCHANGED <<connVars, wbuf, mu, done, onceM, peer, closed, pool, calls,
                   respRuns, respErr, hist>>
tcpConn_Write_Flush(p) ==
    /\ kind = "tcp" /\ pc[p] = "flush"
    /\ \E k \in Accepts(wbuf) :
          /\ ConnWrite(p, wbuf, "merged", k)
          /\ fr' = [fr EXCEPT ![p].err = ConnWriteErr(wbuf, k)]
    /\ Goto(p, "reset")
    /\ UNCHANGED <<connVars, wbuf, mu, done, onceM, peer, closed, pool, calls,
                   respRuns, respErr, hist>>

\* c.wbuf.Reset()
tcpConn_Write_ResetSkipped(p) ==
    /\ kind = "tcp" /\ pc[p] = "reset"
    /\ Goto(p, "unlock")
    /\ UNCHANGED <<connVars, wbuf, mu, done, onceM, out, inb, peer, closed,
                   pool, fr, calls, respRuns, respErr, hist>>
tcpConn_Write_Reset(p) ==
    /\ kind = "tcp" /\ pc[p] = "reset"
    /\ wbuf' = << >>
    /\ Goto(p, "unlock")
    /\ UNCHANGED <<connVars, mu, done, onceM, out, inb, peer, closed, pool,
                   fr, calls, respRuns, respErr, hist>>

\* _, err = c.Conn.Write(b)
tcpConn_Write_Direct(p) ==
    /\ kind = "tcp" /\ pc[p] = "crit" /\ ~HasPending
    /\ \E k \in Accepts(fr[p].b) :
          /\ ConnWrite(p, fr[p].b, "direct", k)
          /\ fr' = [fr EXCEPT ![p].err = ConnWriteErr(fr[p].b, k),
                              ![p].path = "direct"]
    /\ Goto(p, "unlock")
    /\ UNCHANGED <<connVars, wbuf, mu, done, onceM, peer, closed, pool, calls,
                   respRuns, respErr, hist>>

\* return, running the deferred c.mu.Unlock() (tcpConn and udpConn alike).
Write_ReturnKeepLockOnError(p) ==
    /\ pc[p] = "unlock"
    /\ mu' = (IF fr[p].err = ErrNil THEN NoProc ELSE mu)
    /\ Return(p, "Write", fr[p])
    /\ UNCHANGED <<connVars, wbuf, done, onceM, out, inb, peer, closed, pool,
                   calls, respRuns, respErr>>
Write_Return(p) ==
    /\ pc[p] = "unlock"
    /\ mu' = NoProc
    /\ Return(p, "Write", fr[p])
    /\ UNCHANGED <<connVars, wbuf, done, onceM, out, inb, peer, closed, pool,
                   calls, respRuns, respErr>>

(***************************************************************************)
(* udpConn.Write                                                           *)
(***************************************************************************)
\* len(b) > math.MaxUint16
TooLargeOffByOne(b) == Len(b) > MaxUint16 + 1
TooLarge(b) == Len(b) > MaxUint16

\* The size check: a payload over the limit returns at once with n = 0;
\* otherwise n = len(b) and c.mu.Lock() is reached.
udpConn_Write_CallResetOnReject(p, b) ==
    /\ kind = "udp" /\ pc[p] = "idle" /\ calls < CallLimit
    /\ calls' = calls + 1
    /\ IF TooLarge(b)
       THEN /\ Return(p, "Write", [Fr0 EXCEPT !.b = b, !.err = ErrTooLarge,
                                              !.call = calls + 1])
            /\ wbuf' = << >>
       ELSE /\ fr' = [fr EXCEPT ![p] = [Fr0 EXCEPT !.b = b, !.n = Len(b),
                                                   !.call = calls + 1]]
            /\ Goto(p, "lock")
            /\ UNCHANGED <<hist, wbuf>>
    /\ UNCHANGED <<connVars, mu, done, onceM, out, inb, peer, closed,
                   pool, respRuns, respErr>>
udpConn_Write_Call(p, b) ==
    /\ kind = "udp" /\ pc[p] = "idle" /\ calls < CallLimit
    /\ calls' = calls + 1
    /\ IF TooLarge(b)
       THEN /\ Return(p, "Write", [Fr0 EXCEPT !.b = b, !.err = ErrTooLarge,
                                              !.call = calls + 1])
       ELSE /\ fr' = [fr EXCEPT ![p] = [Fr0 EXCEPT !.b = b, !.n = Len(b),
                                                   !.call = calls + 1]]
            /\ Goto(p, "lock")
            /\ UNCHANGED hist
    /\ UNCHANGED <<connVars, wbuf, mu, done, onceM, out, inb, peer, closed,
                   pool, respRuns, respErr>>

\* PutUint16(bb[:], uint16(len(b))); c.wbuf.Write(bb[:]); c.wbuf.Write(b)
udpConn_Write_Append(p) ==
    /\ kind = "udp" /\ pc[p] = "crit" /\ HasPending
    /\ wbuf' = wbuf \o PutUint16(ToUint16(Len(fr[p].b))) \o fr[p].b
    /\ fr' = [fr EXCEPT ![p].path = "merged"]
    /\ Goto(p, "flush")
    /\ UNCHANGED <<connVars, mu, done, onceM, out, inb, peer, closed, pool,
                   calls, respRuns, respErr, hist>>

\* _, err = c.wbuf.WriteTo(c.Conn): bytes.Buffer.WriteTo hands the unread
\* bytes to one Write, advances past the m bytes it accepted, and resets the
\* buffer only when all of them were accepted.
udpConn_Write_FlushKeep(p) ==
    /\ kind = "udp" /\ pc[p] = "flush"
    /\ \E k \in Accepts(wbuf) :
          /\ ConnWrite(p, wbuf, "merged", k)
          /\ wbuf' = wbuf
          /\ fr' = [fr EXCEPT ![p].err = ConnWriteErr(wbuf, k)]
    /\ Goto(p, "unlock")
    /\ UNCHANGED <<connVars, mu, done, onceM, peer, closed, pool, calls,
                   respRuns, respErr, hist>>
udpConn_Write_Flush(p) ==
    /\ kind = "udp" /\ pc[p] = "flush"
    /\ \E k \in Accepts(wbuf) :
          /\ ConnWrite(p, wbuf, "merged", k)
          /\ wbuf' = SubSeq(wbuf, k + 1, Len(wbuf))
          /\ fr' = [fr EXCEPT ![p].err = ConnWriteErr(wbuf, k)]
    /\ Goto(p, "unlock")
    /\ UNCHANGED <<connVars, mu, done, onceM, peer, closed, pool, calls,
                   respRuns, respErr, hist>>

\* _, err = c.Conn.Write(bb[:]); if err != nil { return }
udpConn_Write_PrefixThenPayload(p) ==
    /\ kind = "udp" /\ pc[p] = "crit" /\ ~HasPending
    /\ LET bb == PutUint16(ToUint16(Len(fr[p].b))) IN
       \E k \in Accepts(bb) :
          /\ ConnWrite(p, bb, "prefix", k)
          /\ fr' = [fr EXCEPT ![p].err = ConnWriteErr(bb, k),
                              ![p].path = "direct"]
          /\ Goto(p, "payload")
    /\ UNCHANGED <<connVars, wbuf, mu, done, onceM, peer, closed, pool, calls,
                   respRuns, respErr, hist>>
udpConn_Write_Prefix(p) ==
    /\ kind = "udp" /\ pc[p] = "crit" /\ ~HasPending
    /\ LET bb == PutUint16(ToUint16(Len(fr[p].b))) IN
       \E k \in Accepts(bb) :
          /\ ConnWrite(p, bb, "prefix", k)
          /\ fr' = [fr EXCEPT ![p].err = ConnWriteErr(bb, k),
                              ![p].path = "direct"]
          /\ Goto(p, IF k = Len(bb) THEN "payload" ELSE "unlock")
    /\ UNCHANGED <<connVars, wbuf, mu, done, onceM, peer, closed, pool, calls,
                   respRuns, respErr, hist>>

\* return c.Conn.Write(b): the transport's count and error are the results.
udpConn_Write_Payload(p) ==
    /\ kind = "udp" /\ pc[p] = "payload"
    /\ \E k \in Accepts(fr[p].b) :
          /\ ConnWrite(p, fr[p].b, "payload", k)
          /\ fr' = [fr EXCEPT ![p].n = k, ![p].err = ConnWriteErr(fr[p].b, k)]
    /\ Goto(p, "unlock")
    /\ UNCHANGED <<connVars, wbuf, mu, done, onceM, peer, closed, pool, calls,
                   respRuns, respErr, hist>>

(***************************************************************************)
(* The concurrent writers                                                  *)
(***************************************************************************)
Next ==
    \E p \in Writers :
        \/ \E b \in SmallPayloads : tcpConn_Write_Call(p, b)
        \/ \E b \in SmallPayloads : udpConn_Write_Call(p, b)
        \/ mu_Lock(p)
        \/ tcpConn_Write_Append(p)
        \/ tcpConn_Write_Flush(p)
        \/ tcpConn_Write_Reset(p)
        \/ tcpConn_Write_Direct(p)
        \/ udpConn_Write_Append(p)
        \/ udpConn_Write_Flush(p)
        \/ udpConn_Write_Prefix(p)
        \/ udpConn_Write_Payload(p)
        \/ Write_Return(p)

Spec == Init /\ [][Next]_vars

\* A writer that has entered Write keeps running: the scheduler runs every
\* runnable goroutine, and a transport write returns. Nothing obliges a
\* caller to start a Write.
WriteStep(p) ==
    \/ mu_Lock(p)
    \/ tcpConn_Write_Append(p)
    \/ tcpConn_Write_Flush(p)
    \/ tcpConn_Write_Reset(p)
    \/ tcpConn_Write_Direct(p)
    \/ udpConn_Write_Append(p)
    \/ udpConn_Write_Flush(p)
    \/ udpConn_Write_Prefix(p)
    \/ udpConn_Write_Payload(p)
    \/ Write_Return(p)

SpecLive == Spec /\ \A p \in Writers : WF_vars(WriteStep(p))

(***************************************************************************)
(* tcpConn.Read, udpConn.Read                                              *)
(***************************************************************************)
\* Read(b) with len(b) = blen: c.once.Do(...) is reached; err is this call's
\* own named result, nil so far.
Read_Call(p, blen) ==
    /\ kind \in {"tcp", "udp"} /\ pc[p] = "idle" /\ calls < ReadLimit
    /\ calls' = calls + 1
    /\ fr' = [fr EXCEPT ![p] = [Fr0 EXCEPT !.op = "Read", !.blen = blen,
                                           !.call = calls + 1]]
    /\ Goto(p, "once")
    /\ UNCHANGED <<connVars, wbuf, mu, done, onceM, out, inb, peer, closed,
                   pool, respRuns, respErr, hist>>

\* sync.Once.Do, fast path: done is loaded; if unset the caller goes on to
\* the slow path.
once_Do(p) ==
    /\ pc[p] = "once"
    /\ Goto(p, IF done THEN "checked" ELSE "slow")
    /\ UNCHANGED <<connVars, wbuf, mu, done, onceM, out, inb, peer, closed,
                   pool, fr, calls, respRuns, respErr, hist>>

\* sync.Once.Do, slow path: the Once's mutex is taken and done is loaded
\* again; a caller that finds it set releases the mutex and returns from Do.
once_LockNoExclusion(p) ==
    /\ pc[p] = "slow"
    /\ IF done
       THEN Goto(p, "checked") /\ UNCHANGED onceM
       ELSE Goto(p, "f") /\ onceM' = p
    /\ UNCHANGED <<connVars, wbuf, mu, done, out, inb, peer, closed, pool, fr,
                   calls, respRuns, respErr, hist>>
once_Lock(p) ==
    /\ pc[p] = "slow" /\ onceM = NoProc
    /\ IF done
       THEN Goto(p, "checked") /\ UNCHANGED onceM
       ELSE Goto(p, "f") /\ onceM' = p
    /\ UNCHANGED <<connVars, wbuf, mu, done, out, inb, peer, closed, pool, fr,
                   calls, respRuns, respErr, hist>>

\* The function given to Do: if c.wbuf != nil { err = readResponse(c.Conn) },
\* then done is stored and the Once's mutex released. resp.ReadFrom blocks
\* until the record has arrived or the stream has ended.
once_FPending(p) ==
    /\ pc[p] = "f"
    /\ IF HasPending
       THEN /\ CanReadFull(RespLen)
            /\ LET rec == ReadFullData(RespLen)
                   e == readResponse(rec, ReadFullErr(RespLen)) IN
                  /\ fr' = [fr EXCEPT ![p].err = e]
                  /\ inb' = Rest(Len(rec))
                  /\ respRuns' = respRuns + 1
                  /\ respErr' = e
       ELSE UNCHANGED <<fr, inb, respRuns, respErr>>
    /\ done' = TRUE
    /\ onceM' = NoProc
    /\ Goto(p, "checked")
    /\ UNCHANGED <<connVars, wbuf, mu, out, peer, closed, pool, calls, hist>>
once_F(p) ==
    /\ pc[p] = "f"
    /\ IF ~wbufNil
       THEN /\ CanReadFull(RespLen)
            /\ LET rec == ReadFullData(RespLen)
                   e == readResponse(rec, ReadFullErr(RespLen)) IN
                  /\ fr' = [fr EXCEPT ![p].err = e]
                  /\ inb' = Rest(Len(rec))
                  /\ respRuns' = respRuns + 1
                  /\ respErr' = e
       ELSE UNCHANGED <<fr, inb, respRuns, respErr>>
    /\ done' = TRUE
    /\ onceM' = NoProc
    /\ Goto(p, "checked")
    /\ UNCHANGED <<connVars, wbuf, mu, out, peer, closed, pool, calls, hist>>

\* if err != nil { return }: err is non-nil only for the caller that ran
\* readResponse; every other caller goes on to the transport.
Read_CheckedErrIgnored(p) ==
    /\ pc[p] = "checked"
    /\ Goto(p, IF kind = "tcp" THEN "conn" ELSE "hdr")
    /\ UNCHANGED <<connVars, wbuf, mu, done, onceM, out, inb, peer, closed,
                   pool, fr, calls, respRuns, respErr, hist>>
Read_Checked(p) ==
    /\ pc[p] = "checked"
    /\ IF fr[p].err # ErrNil
       THEN Return(p, "Read", fr[p])
       ELSE /\ Goto(p, IF kind = "tcp" THEN "conn" ELSE "hdr")
            /\ UNCHANGED <<fr, hist>>
    /\ UNCHANGED <<connVars, wbuf, mu, done, onceM, out, inb, peer, closed,
                   pool, calls, respRuns, respErr>>

\* return c.Conn.Read(b): some of the available bytes, or EOF at the end of
\* the stream; a read with nothing available blocks.
tcpConn_Read_Conn(p) ==
    /\ kind = "tcp" /\ pc[p] = "conn"
    /\ \/ /\ fr[p].blen > 0 /\ Len(inb) > 0
          /\ \E k \in 1..Min(fr[p].blen, Len(inb)) :
                /\ Return(p, "Read", [fr[p] EXCEPT !.n = k,
                                                   !.data = SubSeq(inb, 1, k)])
                /\ inb' = Rest(k)
       \/ /\ fr[p].blen > 0 /\ Len(inb) = 0 /\ closed
          /\ Return(p, "Read", [fr[p] EXCEPT !.err = ErrEOF])
          /\ UNCHANGED inb
       \/ /\ fr[p].blen = 0
          /\ Return(p, "Read", fr[p])
          /\ UNCHANGED inb
    /\ UNCHANGED <<connVars, wbuf, mu, done, onceM, out, peer, closed, pool,
                   calls, respRuns, respErr>>

(***************************************************************************)
(* The framed read of udpConn.Read and bindUDPConn.Read                    *)
(***************************************************************************)
\* _, err = io.ReadFull(c.Conn, bb[:]); if err != nil { return };
\* dlen := int(binary.BigEndian.Uint16(bb[:]))
ReadHdr(p) ==
    /\ pc[p] = "hdr" /\ CanReadFull(2)
    /\ LET bb == ReadFullData(2)
           e == ReadFullErr(2) IN
          /\ inb' = Rest(Len(bb))
          /\ IF e # ErrNil
             THEN Return(p, fr[p].op, [fr[p] EXCEPT !.err = e])
             ELSE /\ fr' = [fr EXCEPT ![p].dlen = Uint16(bb)]
                  /\ Goto(p, "body")
                  /\ UNCHANGED hist
    /\ UNCHANGED <<connVars, wbuf, mu, done, onceM, out, peer, closed, pool,
                   calls, respRuns, respErr>>

\* if len(b) >= dlen { return io.ReadFull(c.Conn, b[:dlen]) }; otherwise
\* buf := bufpool.Get(dlen); _, err = io.ReadFull(c.Conn, buf);
\* n = copy(b, buf). The part of buf the read did not fill keeps what the
\* recycled buffer held.
ReadBodyCallerLen(p) ==
    /\ pc[p] = "body" /\ CanReadFull(Min(fr[p].blen, fr[p].dlen))
    /\ LET got == ReadFullData(Min(fr[p].blen, fr[p].dlen)) IN
          /\ inb' = Rest(Len(got))
          /\ Return(p, fr[p].op,
                    [fr[p] EXCEPT !.n = Len(got), !.data = got,
                                  !.err = ReadFullErr(Min(fr[p].blen, fr[p].dlen)),
                                  !.path = "direct"])
          /\ UNCHANGED pool
    /\ UNCHANGED <<connVars, wbuf, mu, done, onceM, out, peer, closed, calls,
                   respRuns, respErr>>
ReadBody(p) ==
    /\ pc[p] = "body" /\ CanReadFull(fr[p].dlen)
    /\ LET dlen == fr[p].dlen
           got == ReadFullData(dlen)
           e == ReadFullErr(dlen) IN
          /\ inb' = Rest(Len(got))
          /\ IF fr[p].blen >= dlen
             THEN /\ Return(p, fr[p].op,
                            [fr[p] EXCEPT !.n = Len(got), !.err = e,
                                          !.data = got, !.path = "direct"])
                  /\ UNCHANGED pool
             ELSE /\ pool' = pool + 1
                  /\ \E g \in Stale :
                        LET buf == got \o [i \in 1..(dlen - Len(got)) |-> g]
                            n == Min(fr[p].blen, Len(buf)) IN
                        fr' = [fr EXCEPT ![p].n = n, ![p].err = e,
                                         ![p].data = SubSeq(buf, 1, n),
                                         ![p].path = "scratch"]
                  /\ Goto(p, "put")
                  /\ UNCHANGED hist
    /\ UNCHANGED <<connVars, wbuf, mu, done, onceM, out, peer, closed, calls,
                   respRuns, respErr>>

\* return, running the deferred bufpool.Put(buf).
Read_PutOnSuccess(p) ==
    /\ pc[p] = "put"
    /\ pool' = (IF fr[p].err = ErrNil THEN pool - 1 ELSE pool)
    /\ Return(p, fr[p].op, fr[p])
    /\ UNCHANGED <<connVars, wbuf, mu, done, onceM, out, inb, peer, closed,
                   calls, respRuns, respErr>>
Read_Put(p) ==
    /\ pc[p] = "put"
    /\ pool' = pool - 1
    /\ Return(p, fr[p].op, fr[p])
    /\ UNCHANGED <<connVars, wbuf, mu, done, onceM, out, inb, peer, closed,
                   calls, respRuns, respErr>>

udpConn_Read_Hdr(p) == kind = "udp" /\ ReadHdr(p)
udpConn_Read_Body(p) == kind = "udp" /\ ReadBody(p)

(***************************************************************************)
(* The transport's inbound side                                            *)
(***************************************************************************)
\* The next segment the peer sent arrives.
Deliver ==
    /\ peer # << >> /\ ~closed
    /\ inb' = inb \o Head(peer)
    /\ peer' = Tail(peer)
    /\ UNCHANGED <<connVars, wbuf, mu, done, onceM, out, closed, pool, pc, fr,
                   calls, respRuns, respErr, hist>>

\* The stream ends: what has arrived can still be read, then reads fail.
Close ==
    /\ ~closed
    /\ closed' = TRUE
    /\ peer' = << >>
    /\ UNCHANGED <<connVars, wbuf, mu, done, onceM, out, inb, pool, pc, fr,
                   calls, respRuns, respErr, hist>>

(***************************************************************************)
(* The concurrent readers                                                  *)
(***************************************************************************)
\* What the peer sends first: a good response, a wrong version, a refusal,
\* a wrong version with a refusal, a record cut short.
Responses == {<<1, 0>>, <<2, 0>>, <<1, 5>>, <<2, 5>>, <<1>>}
\* What follows: one frame of three bytes, a frame cut short, two frames.
Tails == {<<0, 3, 7, 8, 9>>, <<0, 3, 7>>, <<0, 1, 9, 0, 2, 8, 7>>}
ReadLens == {2, 4}

InitRead ==
    /\ InitCommon
    /\ kind \in {"tcp", "udp"}
    /\ InitWrap
    /\ inb = << >> /\ closed = FALSE
    /\ peer \in {<<r, t>> : r \in Responses, t \in Tails}
                \cup {<<t>> : t \in Tails}
    /\ loop = FALSE /\ faulty = FALSE

NextRead ==
    \/ \E p \in Readers :
          \/ \E blen \in ReadLens : Read_Call(p, blen)
          \/ once_Do(p)
          \/ once_Lock(p)
          \/ once_F(p)
          \/ Read_Checked(p)
          \/ tcpConn_Read_Conn(p)
          \/ udpConn_Read_Hdr(p)
          \/ udpConn_Read_Body(p)
          \/ Read_Put(p)
    \/ Deliver
    \/ Close

SpecRead == InitRead /\ [][NextRead]_vars

(***************************************************************************)
(* bindUDPConn                                                             *)
(***************************************************************************)
\* Write(b): the size check, then buf := bufpool.Get(len(b) + 2);
\* PutUint16(buf[:2], uint16(len(b))); n = copy(buf[2:], b). op names the
\* method the caller entered through and addr the destination it was given,
\* which nothing below reads.
bindUDPConn_Write_Enter(p, b, op, addr) ==
    /\ kind = "bindudp" /\ pc[p] = "idle" /\ calls < CallLimit
    /\ calls' = calls + 1
    /\ IF TooLarge(b)
       THEN /\ Return(p, op, [Fr0 EXCEPT !.b = b, !.err = ErrTooLarge,
                                         !.addr = addr, !.call = calls + 1])
            /\ UNCHANGED pool
       ELSE /\ pool' = pool + 1
            /\ fr' = [fr EXCEPT ![p] =
                        [Fr0 EXCEPT !.op = op, !.b = b, !.n = Len(b),
                                    !.addr = addr, !.call = calls + 1,
                                    !.buf = PutUint16(ToUint16(Len(b))) \o b]]
            /\ Goto(p, "bwrite")
            /\ UNCHANGED hist
    /\ UNCHANGED <<connVars, wbuf, mu, done, onceM, out, inb, peer, closed,
                   respRuns, respErr>>

bindUDPConn_Write_Call(p, b) == bindUDPConn_Write_Enter(p, b, "Write", NoAddr)

\* WriteTo(b, addr): return c.Write(b); addr is not used.
bindUDPConn_WriteTo_Call(p, b, addr) ==
    bindUDPConn_Write_Enter(p, b, "WriteTo", addr)

\* return c.Conn.Write(buf), running the deferred bufpool.Put(buf): the
\* transport's count and error are the results.
bindUDPConn_Write_Conn(p) ==
    /\ kind = "bindudp" /\ pc[p] = "bwrite"
    /\ \E k \in Accepts(fr[p].buf) :
          /\ ConnWrite(p, fr[p].buf, "frame", k)
          /\ Return(p, fr[p].op, [fr[p] EXCEPT !.n = k, !.path = "frame",
                                              !.err = ConnWriteErr(fr[p].buf, k)])
    /\ pool' = pool - 1
    /\ UNCHANGED <<connVars, wbuf, mu, done, onceM, peer, closed, calls,
                   respRuns, respErr>>

\* Read(b) with len(b) = blen: the 2-byte data length header is read first.
\* op names the method the caller entered through and addr the sender that
\* method reports.
bindUDPConn_Read_Enter(p, blen, op, addr) ==
    /\ kind = "bindudp" /\ pc[p] = "idle" /\ calls < ReadLimit
    /\ calls' = calls + 1
    /\ fr' = [fr EXCEPT ![p] = [Fr0 EXCEPT !.op = op, !.blen = blen,
                                           !.addr = addr, !.call = calls + 1]]
    /\ Goto(p, "hdr")
    /\ UNCHANGED <<connVars, wbuf, mu, done, onceM, out, inb, peer, closed,
                   pool, respRuns, respErr, hist>>

bindUDPConn_Read_Call(p, blen) == bindUDPConn_Read_Enter(p, blen, "Read", NoAddr)

\* ReadFrom(b): addr = c.remoteAddr; n, err = c.Read(b)
bindUDPConn_ReadFromLocal_Call(p, blen) ==
    bindUDPConn_Read_Enter(p, blen, "ReadFrom", localAddr)
bindUDPConn_ReadFrom_Call(p, blen) ==
    bindUDPConn_Read_Enter(p, blen, "ReadFrom", remoteAddr)

bindUDPConn_Read_Hdr(p) == kind = "bindudp" /\ ReadHdr(p)
bindUDPConn_Read_Body(p) == kind = "bindudp" /\ ReadBody(p)

(***************************************************************************)
(* One caller over a loop-back transport                                   *)
(***************************************************************************)
\* The largest datagram and the one over the limit open a run.
WriteArgs == FramePayloads
             \cup (IF calls = 0 THEN {MaxPayload, OverPayload} ELSE {})
\* Destination addresses given to WriteTo.
Addrs == {"tunnel-peer", "elsewhere"}
\* A buffer of the largest size is offered to a run that wrote the largest
\* datagram.
ReadArgs == BufLens \cup (IF Heavy THEN {MaxUint16} ELSE {})

\* A udpConn with a present, empty wbuf expects the peer's response, which
\* has arrived; bindUDPConn has no wbuf.
InitFrame ==
    /\ InitCommon
    /\ kind \in {"udp", "bindudp"}
    /\ localAddr = (IF kind = "udp" THEN NoAddr ELSE "tunnel-local")
    /\ remoteAddr = (IF kind = "udp" THEN NoAddr ELSE "tunnel-peer")
    /\ md = (IF kind = "udp" THEN NoMd ELSE "md-1")
    /\ wbufNil \in (IF kind = "udp" THEN BOOLEAN ELSE {TRUE})
    /\ hdr0 = << >> /\ wbuf = << >>
    /\ inb = (IF wbufNil THEN << >> ELSE <<Version1, StatusOK>>)
    /\ peer = << >> /\ closed = FALSE
    /\ loop = TRUE /\ faulty = FALSE

NextFrame ==
    \/ \E b \in WriteArgs : udpConn_Write_Call(Caller, b)
    \/ mu_Lock(Caller)
    \/ udpConn_Write_Prefix(Caller)
    \/ udpConn_Write_Payload(Caller)
    \/ Write_Return(Caller)
    \/ \E blen \in ReadArgs : Read_Call(Caller, blen)
    \/ once_Do(Caller)
    \/ once_Lock(Caller)
    \/ once_F(Caller)
    \/ Read_Checked(Caller)
    \/ udpConn_Read_Hdr(Caller)
    \/ udpConn_Read_Body(Caller)
    \/ \E b \in WriteArgs : bindUDPConn_Write_Call(Caller, b)
    \/ \E b \in WriteArgs : bindUDPConn_WriteTo_Call(Caller, b, remoteAddr)
    \/ bindUDPConn_Write_Conn(Caller)
    \/ \E blen \in ReadArgs : bindUDPConn_Read_Call(Caller, blen)
    \/ bindUDPConn_Read_Hdr(Caller)
    \/ bindUDPConn_Read_Body(Caller)
    \/ Read_Put(Caller)
    \/ Close

SpecFrame == InitFrame /\ [][NextFrame]_vars

(***************************************************************************)
(* bindConn                                                                *)
(***************************************************************************)
\* bindConn embeds net.Conn: Read and Write are the transport's own.
bindConn_Read_Call(p, blen) ==
    /\ kind = "bind" /\ pc[p] = "idle" /\ calls < ReadLimit
    /\ calls' = calls + 1
    /\ fr' = [fr EXCEPT ![p] = [Fr0 EXCEPT !.op = "Read", !.blen = blen,
                                           !.call = calls + 1]]
    /\ Goto(p, "conn")
    /\ UNCHANGED <<connVars, wbuf, mu, done, onceM, out, inb, peer, closed,
                   pool, respRuns, respErr, hist>>

bindConn_Read_Conn(p) ==
    /\ kind = "bind" /\ pc[p] = "conn"
    /\ \/ /\ fr[p].blen > 0 /\ Len(inb) > 0
          /\ \E k \in 1..Min(fr[p].blen, Len(inb)) :
                /\ Return(p, "Read", [fr[p] EXCEPT !.n = k,
                                                   !.data = SubSeq(inb, 1, k)])
                /\ inb' = Rest(k)
       \/ /\ fr[p].blen > 0 /\ Len(inb) = 0 /\ closed
          /\ Return(p, "Read", [fr[p] EXCEPT !.err = ErrEOF])
          /\ UNCHANGED inb
       \/ /\ fr[p].blen = 0
          /\ Return(p, "Read", fr[p])
          /\ UNCHANGED inb
    /\ UNCHANGED <<connVars, wbuf, mu, done, onceM, out, peer, closed, pool,
                   calls, respRuns, respErr>>

bindConn_Write_Call(p, b) ==
    /\ kind = "bind" /\ pc[p] = "idle" /\ calls < CallLimit
    /\ calls' = calls + 1
    /\ fr' = [fr EXCEPT ![p] = [Fr0 EXCEPT !.op = "Write", !.b = b,
                                           !.call = calls + 1]]
    /\ Goto(p, "cwrite")
    /\ UNCHANGED <<connVars, wbuf, mu, done, onceM, out, inb, peer, closed,
                   pool, respRuns, respErr, hist>>

bindConn_Write_Conn(p) ==
    /\ kind = "bind" /\ pc[p] = "cwrite"
    /\ \E k \in Accepts(fr[p].b) :
          /\ ConnWrite(p, fr[p].b, "direct", k)
          /\ Return(p, "Write", [fr[p] EXCEPT !.n = k, !.path = "direct",
                                             !.err = ConnWriteErr(fr[p].b, k)])
    /\ UNCHANGED <<connVars, wbuf, mu, done, onceM, peer, closed, pool, calls,
                   respRuns, respErr>>

(***************************************************************************)
(* LocalAddr, RemoteAddr, Metadata                                         *)
(***************************************************************************)
\* An accessor returns the field's value and touches nothing.
Accessor(p, op, field) ==
    /\ pc[p] = "idle" /\ calls < CallLimit
    /\ calls' = calls + 1
    /\ Return(p, op, [Fr0 EXCEPT !.addr = field, !.call = calls + 1])
    /\ UNCHANGED <<connVars, wbuf, mu, done, onceM, out, inb, peer, closed,
                   pool, respRuns, respErr>>

bindConn_LocalAddr(p) == kind = "bind" /\ Accessor(p, "LocalAddr", localAddr)
bindConn_RemoteAddr(p) == kind = "bind" /\ Accessor(p, "RemoteAddr", remoteAddr)
bindConn_Metadata(p) == kind = "bind" /\ Accessor(p, "Metadata", md)
bindUDPConn_LocalAddr(p) ==
    kind = "bindudp" /\ Accessor(p, "LocalAddr", localAddr)
bindUDPConn_RemoteAddrLocal(p) ==
    kind = "bindudp" /\ Accessor(p, "RemoteAddr", localAddr)
bindUDPConn_RemoteAddr(p) ==
    kind = "bindudp" /\ Accessor(p, "RemoteAddr", remoteAddr)
bindUDPConn_Metadata(p) == kind = "bindudp" /\ Accessor(p, "Metadata", md)

(***************************************************************************)
(* One caller over a loop-back transport that may fail                     *)
(***************************************************************************)
\* The tunnel-assigned values a bound connection is wrapped with.
Wraps == {<<"tunnel-local", "tunnel-peer", "md-1">>,
          <<"tunnel-local-2", "tunnel-peer-2", "md-2">>}
FaultPayloads == {<<1, 2, 3>>, <<4>>}
BoundPayloads == {<<1, 2, 3>>}
\* The datagram over the limit opens a run.
FaultWriteArgs == FaultPayloads \cup (IF calls = 0 THEN {OverPayload} ELSE {})
FaultReadArgs == {2, 10}

\* udpConn with wbuf absent, empty or holding the header (the peer's
\* response has arrived where one is expected); bindConn and bindUDPConn
\* wrapped with the tunnel's addresses and metadata.
InitFault ==
    /\ InitCommon
    /\ kind \in {"udp", "bind", "bindudp"}
    /\ IF kind = "udp"
       THEN /\ InitWrap
            /\ inb = (IF wbufNil THEN << >> ELSE <<Version1, StatusOK>>)
       ELSE /\ \E w \in Wraps :
                  localAddr = w[1] /\ remoteAddr = w[2] /\ md = w[3]
            /\ wbufNil = TRUE /\ hdr0 = << >> /\ wbuf = << >>
            /\ inb = << >>
    /\ peer = << >> /\ closed = FALSE
    /\ loop = TRUE /\ faulty = TRUE

NextFault ==
    \/ \E b \in FaultWriteArgs : udpConn_Write_Call(Caller, b)
    \/ mu_Lock(Caller)
    \/ udpConn_Write_Append(Caller)
    \/ udpConn_Write_Flush(Caller)
    \/ udpConn_Write_Prefix(Caller)
    \/ udpConn_Write_Payload(Caller)
    \/ Write_Return(Caller)
    \/ \E blen \in FaultReadArgs : Read_Call(Caller, blen)
    \/ once_Do(Caller)
    \/ once_Lock(Caller)
    \/ once_F(Caller)
    \/ Read_Checked(Caller)
    \/ udpConn_Read_Hdr(Caller)
    \/ udpConn_Read_Body(Caller)
    \/ \E b \in BoundPayloads : bindUDPConn_Write_Call(Caller, b)
    \/ \E b \in BoundPayloads, addr \in Addrs :
          bindUDPConn_WriteTo_Call(Caller, b, addr)
    \/ bindUDPConn_Write_Conn(Caller)
    \/ \E blen \in FaultReadArgs : bindUDPConn_Read_Call(Caller, blen)
    \/ \E blen \in FaultReadArgs : bindUDPConn_ReadFrom_Call(Caller, blen)
    \/ bindUDPConn_Read_Hdr(Caller)
    \/ bindUDPConn_Read_Body(Caller)
    \/ Read_Put(Caller)
    \/ \E blen \in FaultReadArgs : bindConn_Read_Call(Caller, blen)
    \/ bindConn_Read_Conn(Caller)
    \/ \E b \in BoundPayloads : bindConn_Write_Call(Caller, b)
    \/ bindConn_Write_Conn(Caller)
    \/ bindConn_LocalAddr(Caller)
    \/ bindConn_RemoteAddr(Caller)
    \/ bindConn_Metadata(Caller)
    \/ bindUDPConn_LocalAddr(Caller)
    \/ bindUDPConn_RemoteAddr(Caller)
    \/ bindUDPConn_Metadata(Caller)
    \/ Close

SpecFault == InitFault /\ [][NextFault]_vars

(***************************************************************************)
(* Properties: what the history and the transport log say                  *)
(***************************************************************************)
IsWrite(h) == h.op \in {"Write", "WriteTo"}
IsRead(h) == h.op \in {"Read", "ReadFrom"}

\* The returned writes that succeeded and the returned reads that succeeded,
\* each in order of return.
Written == SelectSeq(hist, LAMBDA h : IsWrite(h) /\ h.err = ErrNil)
Received == SelectSeq(hist, LAMBDA h : IsRead(h) /\ h.err = ErrNil)

\* The bytes call c handed to the transport, over all its transport writes.
BytesOfCall(c) ==
    LET mine == SelectSeq(out, LAMBDA e : e.call = c)
    IN  Flatten([i \in 1..Len(mine) |-> mine[i].bytes])

\* The frame of payload q as the wire format states it: the length as two
\* bytes, high byte first, then the payload.
FrameOf(q) == <<Len(q) \div 256, Len(q) % 256>> \o q

\* C1: Datagram framing round-trip. A framed Write (udpConn.Write with no
\* pending header, bindUDPConn.Write) of a payload of at most 65535 bytes
\* puts on the transport exactly the 2-byte big-endian length followed by the
\* payload, and the k-th framed Read, into a buffer at least as long as the
\* k-th payload written, returns that payload's length and bytes.
C1_FramingRoundTrip ==
    /\ \A i \in DOMAIN hist :
          (IsWrite(hist[i]) /\ hist[i].err = ErrNil)
              => /\ Len(hist[i].b) <= MaxUint16
                 /\ BytesOfCall(hist[i].call) = FrameOf(hist[i].b)
    /\ \A k \in DOMAIN Received :
          /\ k <= Len(Written)
          /\ Received[k].blen >= Len(Written[k].b)
                => /\ Received[k].n = Len(Written[k].b)
                   /\ Received[k].data = Written[k].b

\* Two datagrams were written and read back in order, the second with a
\* length that needs both length bytes.
C1_Witness ==
    /\ Len(Written) >= 2 /\ Len(Received) >= 2
    /\ Written[1].b = <<1, 2, 3>> /\ Received[1].blen = 10
    /\ Received[1].data = <<1, 2, 3>>
    /\ Len(Written[2].b) = 257 /\ Received[2].n = 257

\* C7: a Write (udpConn.Write, bindUDPConn.Write, bindUDPConn.WriteTo) of
\* more than 65535 bytes fails with the too-large error, reports 0 bytes
\* written and puts nothing on the transport.
C7_TooLargeRejected ==
    /\ \A i \in DOMAIN hist :
          (IsWrite(hist[i]) /\ Len(hist[i].b) > 65535)
              => /\ hist[i].err = ErrTooLarge
                 /\ hist[i].n = 0
                 /\ BytesOfCall(hist[i].call) = << >>
    /\ \A p \in Procs : pc[p] # "idle" => Len(fr[p].b) <= 65535
    /\ \A i \in DOMAIN out : Len(out[i].bytes) <= 65535 + 2

\* A payload of 65536 bytes was rejected on a bound datagram connection and
\* the transport saw nothing.
C7_Witness ==
    /\ kind = "bindudp"
    /\ \E i \in DOMAIN hist :
          /\ IsWrite(hist[i]) /\ Len(hist[i].b) = 65536
          /\ hist[i].err = ErrTooLarge /\ hist[i].n = 0
    /\ out = << >>

\* C8: a framed Read into a buffer shorter than the frame copies the frame's
\* leading len(buffer) bytes and consumes the whole frame: every successful
\* Read, the one after a truncated Read included, returns the leading bytes
\* of the frame of its own rank, and once a truncated Read has returned the
\* transport holds only the frames after it.
C8_TruncatingRead ==
    /\ \A k \in DOMAIN Received :
          /\ k <= Len(Written)
          /\ Received[k].n = Min(Received[k].blen, Len(Written[k].b))
          /\ Received[k].data = SubSeq(Written[k].b, 1, Received[k].n)
    /\ (/\ hist # << >>
        /\ IsRead(hist[Len(hist)]) /\ hist[Len(hist)].err = ErrNil
        /\ hist[Len(hist)].path = "scratch"
        /\ \A i \in DOMAIN hist : IsWrite(hist[i]) => hist[i].err = ErrNil
        /\ pc[Caller] = "idle")
          => inb = Flatten([j \in 1..(Len(Written) - Len(Received)) |->
                               FrameOf(Written[Len(Received) + j].b)])

\* A Read into 2 bytes truncated a 257-byte frame, and the next Read returned
\* the next frame.
C8_Witness ==
    /\ Len(Received) >= 2 /\ Len(Written) >= 2
    /\ Len(Written[1].b) = 257 /\ Received[1].blen = 2
    /\ Received[1].data = <<2, 3>>
    /\ Received[2].data = <<1, 2, 3>>

\* The payload of call c: of a call in progress, or of a returned one.
CallPayload(c) ==
    IF \E p \in Procs : fr[p].call = c
    THEN fr[CHOOSE p \in Procs : fr[p].call = c].b
    ELSE hist[CHOOSE i \in DOMAIN hist : hist[i].call = c].b

\* What a Write of payload q sends: q itself on the stream connection, q's
\* frame on the datagram connection.
WireForm(q) == IF kind = "udp" THEN FrameOf(q) ELSE q

HdrCount(bs) == Cardinality({i \in DOMAIN bs : bs[i] \in HdrBytes})
\* The header bytes the transport accepted in its first j writes.
HdrAccepted(j) ==
    HdrCount(Flatten([i \in 1..j |-> SubSeq(out[i].bytes, 1, out[i].acc)]))
IsSuffix(s, t) ==
    Len(s) <= Len(t) /\ SubSeq(t, Len(t) - Len(s) + 1, Len(t)) = s

\* C2: with a pending header H, the first transport write is the single
\* write of H||P (tcpConn) or H||len(P)||P (udpConn), P being the payload
\* of the first Write; no later transport write sends a header byte the
\* transport has accepted before.
C2_HeaderMergedWithFirstWrite ==
    /\ (hdr0 # << >> /\ out # << >>)
          => /\ out[1].part = "merged"
             /\ out[1].bytes = hdr0 \o WireForm(CallPayload(out[1].call))
    /\ \A i \in DOMAIN out :
          i > 1 => HdrCount(out[i].bytes) <= Len(hdr0) - HdrAccepted(i - 1)

\* The header went out with the first Write, accepted in full, and a later
\* Write reached the transport without it.
C2_Witness ==
    /\ hdr0 = Header /\ Len(out) >= 2
    /\ out[1].acc = Len(out[1].bytes)
    /\ out[2].call # out[1].call
    /\ HdrCount(out[2].bytes) = 0 /\ out[2].acc = Len(out[2].bytes)

\* C3: once the first Write that found a non-empty pending header has
\* returned, whether its transport write succeeded, failed or was partial,
\* the pending header is empty and stays empty (tcpConn and udpConn).
C3_HeaderEmptyAfterMergedWrite ==
    (\E i \in DOMAIN hist : hist[i].path = "merged") => wbuf = << >>

\* C9: writes on one connection are serialized. Each transport write carries
\* its own call's bytes; a length prefix the transport accepted is followed
\* at once by its own payload; when every transport write was accepted the
\* wire is the header followed by whole writes; the header bytes on the wire
\* come first and at most once, and in full when the first write got through.
C9_WritesSerialized ==
    /\ \A i \in DOMAIN out :
          LET e == out[i]
              q == CallPayload(e.call) IN
          /\ e.part = "direct" => e.bytes = q
          /\ e.part = "merged" =>
                IF kind = "tcp" THEN e.bytes = hdr0 \o q
                ELSE IsSuffix(FrameOf(q), e.bytes)
          /\ e.part = "payload" =>
                /\ i > 1 /\ out[i - 1].call = e.call
                /\ out[i - 1].part = "prefix" /\ e.bytes = q
          /\ e.part = "prefix" =>
                /\ e.bytes = <<Len(q) \div 256, Len(q) % 256>>
                /\ e.acc = 2 =>
                      \/ /\ i = Len(out)
                         /\ \E p \in Procs : fr[p].call = e.call
                                             /\ pc[p] = "payload"
                      \/ /\ i < Len(out) /\ out[i + 1].call = e.call
                         /\ out[i + 1].part = "payload"
    /\ (out # << >> /\ \A i \in DOMAIN out : out[i].acc = Len(out[i].bytes))
          => Wire = hdr0 \o Flatten([i \in 1..Len(out) |->
                        LET q == CallPayload(out[i].call) IN
                        CASE out[i].part = "merged" -> WireForm(q)
                          [] out[i].part = "prefix" ->
                                <<Len(q) \div 256, Len(q) % 256>>
                          [] OTHER -> q])
    /\ LET hb == HdrCount(Wire) IN
          /\ hb <= Len(hdr0)
          /\ SubSeq(Wire, 1, hb) = SubSeq(hdr0, 1, hb)
    /\ out # << >> => IsPrefix(hdr0, out[1].bytes)
    /\ (out # << >> /\ out[1].acc = Len(out[1].bytes)) => IsPrefix(hdr0, Wire)

\* On a connection wrapped with a header, one writer is between its length
\* prefix and its payload while the other waits for the lock, after an
\* earlier Write took the header out.
C9_Witness ==
    /\ hdr0 = Header /\ kind = "udp"
    /\ \E p, q \in Writers :
          /\ p # q /\ pc[p] = "payload" /\ pc[q] = "lock"
          /\ out[1].part = "merged" /\ out[Len(out)].call = fr[p].call

\* C10: tcpConn.Write reports len(b) as written on the merged path and on the
\* direct path, whatever the transport write returned, and returns the
\* transport's error.
C10_TcpWriteReportsFullLength ==
    kind = "tcp" =>
      /\ \A i \in DOMAIN hist :
            IsWrite(hist[i]) =>
              /\ hist[i].n = Len(hist[i].b)
              /\ \E j \in DOMAIN out :
                    /\ out[j].call = hist[i].call
                    /\ \A k \in DOMAIN out : out[k].call = hist[i].call => k = j
                    /\ hist[i].err = (IF out[j].acc = Len(out[j].bytes)
                                      THEN ErrNil ELSE ErrTransport)
      /\ \A p \in Writers : pc[p] # "idle" => fr[p].n = Len(fr[p].b)

\* A merged write that the transport cut short and a direct write that it
\* refused have both returned their payload's length with the error.
C10_Witness ==
    /\ kind = "tcp"
    /\ \E i, j \in DOMAIN hist :
          /\ hist[i].path = "merged" /\ hist[i].err = ErrTransport
          /\ hist[i].n = Len(hist[i].b)
          /\ hist[j].path = "direct" /\ hist[j].err = ErrTransport
          /\ hist[j].n = Len(hist[j].b) /\ Len(hist[j].b) = 2
    /\ \E k \in DOMAIN out : out[k].part = "merged" /\ out[k].acc = 1

\* The positions at which a Read is at the transport for payload bytes.
PayloadPcs == {"conn", "hdr", "body", "put"}

\* C4: on one tcpConn or udpConn the handshake-response check is run by one
\* caller and never again, however many Reads are issued, concurrent or in
\* sequence; and no Read is at the transport for payload bytes before the
\* one-time function has completed (with the check, where a check is due).
C4_CheckRunsOnce ==
    /\ respRuns <= 1
    /\ Cardinality({p \in Procs : pc[p] = "f"}) <= 1
    /\ \A p \in Procs : pc[p] = "f" => ~done /\ respRuns = 0
    /\ \A p \in Procs :
          pc[p] \in PayloadPcs => done /\ (~wbufNil => respRuns = 1)
    /\ \A i \in DOMAIN hist :
          IsRead(hist[i]) => done /\ (~wbufNil => respRuns = 1)

\* Two concurrent Reads are both at the transport for payload bytes after
\* the single check.
C4_Witness ==
    /\ ~wbufNil /\ respRuns = 1
    /\ \E p, q \in Readers :
          p # q /\ pc[p] \in PayloadPcs /\ pc[q] \in PayloadPcs

\* C5: when the handshake-response check fails, every Read returns that
\* error (the one that ran the check, those that waited for it, the later
\* ones) and none returns payload bytes.
C5_AllReadsObserveFailure ==
    (respRuns >= 1 /\ respErr # ErrNil) =>
        \A i \in DOMAIN hist :
            IsRead(hist[i]) => /\ hist[i].err = respErr
                               /\ hist[i].n = 0
                               /\ hist[i].data = << >>

\* C6 as stated: the check is performed also with an absent buffer, so a
\* Read returns application bytes only after the response was consumed.
C6_CheckAlsoWhenBufferAbsent ==
    \A i \in DOMAIN hist :
        (IsRead(hist[i]) /\ hist[i].n > 0) => respRuns = 1

\* C6, amended: the first Read performs the handshake-response check when
\* the pending-header buffer is present, also when it is empty (no header
\* left to send), and the response is consumed before any application bytes
\* are returned; with an absent (nil) buffer no check is performed.
C6_CheckWhenBufferPresent ==
    /\ done => respRuns = (IF wbufNil THEN 0 ELSE 1)
    /\ \A p \in Procs : pc[p] \in PayloadPcs => done
    /\ \A i \in DOMAIN hist : IsRead(hist[i]) => done

\* A connection wrapped with a present, empty buffer ran the check and then
\* returned application bytes.
C6_Witness ==
    /\ ~wbufNil /\ hdr0 = << >> /\ respRuns = 1 /\ respErr = ErrNil
    /\ \E i \in DOMAIN hist : IsRead(hist[i]) /\ hist[i].n > 0

(***************************************************************************)
(* Properties of the bound connections                                     *)
(***************************************************************************)
\* The returned reads, in order of return, and the transport writes of call c.
Reads == SelectSeq(hist, IsRead)
OutOf(c) == SelectSeq(out, LAMBDA e : e.call = c)
Accepted(c) == [i \in 1..Len(OutOf(c)) |-> OutOf(c)[i].acc]

\* Where the k+1-st frame starts on the wire when k whole frames precede it.
RECURSIVE FramePos(_)
FramePos(k) ==
    IF k = 0 THEN 0
    ELSE LET at == FramePos(k - 1)
         IN  at + 2 + (Wire[at + 1] * 256 + Wire[at + 2])

\* C11: on a bindUDPConn, ReadFrom performs the framed Read and always
\* reports the tunnel-assigned remote address as the sender: while the reads
\* so far have succeeded, the k-th one, Read or ReadFrom alike, returns the
\* leading bytes of the k-th frame on the wire. WriteTo(b, addr) performs
\* the framed Write whatever addr is: it hands the transport the frame of b
\* in one write, and two calls of Write or WriteTo with the same b and the
\* same transport outcome return the same count and error.
C11_ReadFromWriteToAreReadWrite ==
    kind = "bindudp" =>
      /\ \A i \in DOMAIN hist :
            hist[i].op = "ReadFrom" => hist[i].addr = remoteAddr
      /\ \A k \in DOMAIN Reads :
            (\A j \in 1..k : Reads[j].err = ErrNil) =>
               LET at == FramePos(k - 1)
                   dlen == Wire[at + 1] * 256 + Wire[at + 2] IN
               /\ Reads[k].n = Min(Reads[k].blen, dlen)
               /\ Reads[k].data = SubSeq(Wire, at + 3, at + 2 + Reads[k].n)
      /\ \A i \in DOMAIN hist :
            (IsWrite(hist[i]) /\ Len(hist[i].b) <= 65535) =>
               /\ Len(OutOf(hist[i].call)) = 1
               /\ OutOf(hist[i].call)[1].bytes = FrameOf(hist[i].b)
      /\ \A i, j \in DOMAIN hist :
            (/\ IsWrite(hist[i]) /\ IsWrite(hist[j])
             /\ hist[i].b = hist[j].b
             /\ Accepted(hist[i].call) = Accepted(hist[j].call))
               => /\ hist[i].n = hist[j].n
                  /\ hist[i].err = hist[j].err

\* Write(b) and WriteTo(b, addr) to an address that is not the tunnel's peer
\* put the same frame on the transport and returned the same result, and a
\* ReadFrom returned the first datagram with the tunnel's peer as sender.
C11_Witness ==
    /\ kind = "bindudp" /\ Len(hist) = 3
    /\ hist[1].op = "Write" /\ hist[2].op = "WriteTo"
    /\ hist[2].addr = "elsewhere" /\ hist[2].addr # remoteAddr
    /\ hist[1].b = <<1, 2, 3>> /\ hist[2].b = <<1, 2, 3>>
    /\ hist[1].err = ErrNil /\ hist[2].err = ErrNil
    /\ hist[3].op = "ReadFrom" /\ hist[3].err = ErrNil
    /\ hist[3].data = <<1, 2, 3>> /\ hist[3].addr = remoteAddr

\* What the accessors have returned so far is what the fields hold.
AccessorsReturnFields ==
    \A i \in DOMAIN hist :
        /\ hist[i].op = "LocalAddr" => hist[i].addr = localAddr
        /\ hist[i].op = "RemoteAddr" => hist[i].addr = remoteAddr
        /\ hist[i].op = "Metadata" => hist[i].addr = md

\* C12: for bindConn and bindUDPConn, LocalAddr, RemoteAddr and Metadata
\* return the tunnel-assigned values given at wrap time, and no step of any
\* Read, Write, ReadFrom or WriteTo call, successful or failing, changes
\* the three fields.
C12_AddressesImmutable ==
    /\ [](kind \in {"bind", "bindudp"} =>
             /\ <<localAddr, remoteAddr, md>> \in Wraps
             /\ AccessorsReturnFields)
    /\ [][/\ localAddr' = localAddr
          /\ remoteAddr' = remoteAddr
          /\ md' = md]_vars

\* After a Write the transport refused and a ReadFrom that failed, RemoteAddr
\* returned the second tunnel's peer address.
C12_Witness ==
    /\ kind = "bindudp" /\ Len(hist) = 3
    /\ IsWrite(hist[1]) /\ hist[1].err = ErrTransport
    /\ hist[2].op = "ReadFrom" /\ hist[2].err # ErrNil
    /\ hist[3].op = "RemoteAddr" /\ hist[3].addr = "tunnel-peer-2"

(***************************************************************************)
(* Properties of the write lock                                            *)
(***************************************************************************)
\* The positions of Write between c.mu.Lock() and the deferred Unlock.
LockedPcs == {"crit", "flush", "reset", "payload", "unlock"}

\* C13: the write lock of a tcpConn or udpConn is released on every exit
\* path of Write, transport errors included: the lock is held only by a
\* caller that is inside Write past c.mu.Lock(), and whenever Writes are in
\* progress, one of them waiting for the lock or not, a moment comes when all
\* of them have returned: no Write waits for the lock for ever.
C13_LockReleasedOnEveryExit ==
    /\ [](\A p \in Procs : mu = p => pc[p] \in LockedPcs)
    /\ [](mu = NoProc => \A p \in Procs : pc[p] \notin LockedPcs)
    /\ (\E p \in Writers : pc[p] # "idle") ~> (\A p \in Writers : pc[p] = "idle")

\* A udpConn Write returned the error of its length-prefix write, a later
\* one the error of its payload write, and a third Write holds the lock.
C13_Witness ==
    /\ kind = "udp" /\ Len(hist) = 2
    /\ hist[1].path = "direct" /\ hist[2].path = "direct"
    /\ hist[1].err = ErrTransport /\ hist[2].err = ErrTransport
    /\ Len(OutOf(hist[1].call)) = 1 /\ Len(OutOf(hist[2].call)) = 2
    /\ \E p \in Writers : pc[p] = "crit" /\ mu = p

\* C14: udpConn.Write with no pending header issues the length prefix and
\* the payload as two transport writes in that order, and returns the error
\* of the prefix write without attempting the payload write: a returned
\* Write of this path made either the two writes, prefix accepted in full,
\* or the prefix write alone, which failed, and then it returned the error.
C14_PrefixErrorStopsPayload ==
    kind = "udp" =>
      /\ \A i \in DOMAIN hist :
            hist[i].path = "direct" =>
               LET w == OutOf(hist[i].call) IN
               /\ Len(w) \in {1, 2}
               /\ w[1].part = "prefix"
               /\ w[1].bytes = <<Len(hist[i].b) \div 256, Len(hist[i].b) % 256>>
               /\ Len(w) = 1 <=> w[1].acc < 2
               /\ Len(w) = 1 => hist[i].err = ErrTransport
               /\ Len(w) = 2 =>
                     /\ w[2].part = "payload" /\ w[2].bytes = hist[i].b
                     /\ hist[i].err = (IF w[2].acc = Len(hist[i].b)
                                       THEN ErrNil ELSE ErrTransport)
      /\ \A j \in DOMAIN out :
            out[j].part = "payload" =>
               /\ j > 1
               /\ out[j - 1].call = out[j].call
               /\ out[j - 1].part = "prefix"
               /\ out[j - 1].acc = 2

\* One Write returned after its prefix write failed having accepted one
\* byte, with no payload write; another made both writes.
C14_Witness ==
    /\ kind = "udp"
    /\ \E i, j \in DOMAIN hist :
          /\ hist[i].path = "direct" /\ hist[i].err = ErrTransport
          /\ Len(OutOf(hist[i].call)) = 1
          /\ OutOf(hist[i].call)[1].acc = 1
          /\ hist[j].path = "direct" /\ hist[j].err = ErrNil
          /\ Len(OutOf(hist[j].call)) = 2

\* C15: a successful framed write on a bound datagram connection
\* (bindUDPConn.Write, and WriteTo through it) reports a written count equal
\* to the payload length len(b), not the length of the frame put on the wire.
C15_BoundWriteReportsPayloadLength ==
    kind = "bindudp" =>
      \A i \in DOMAIN hist :
          (IsWrite(hist[i]) /\ hist[i].err = ErrNil)
              => hist[i].n = Len(hist[i].b)

(***************************************************************************)
(* Properties of the handshake-response check                              *)
(***************************************************************************)
\* Caller p ran the check and it failed.
CheckFailedFor(p) == pc[p] = "checked" /\ fr[p].err # ErrNil

\* C16: the Read whose handshake-response check fails (the first Read on a
\* tcpConn or udpConn, the one that runs the check) returns the check's
\* error with zero bytes read and reads no payload bytes in that call: the
\* check itself takes at most the response record from the transport, the
\* caller's next step is the return of that error with n = 0 and no data,
\* leaving the inbound bytes where they are, and no caller holding an error
\* is at the transport for a frame header, a frame body or stream bytes.
C16_FailedCheckReturnsError ==
    /\ [](\A p \in Procs :
             /\ CheckFailedFor(p) =>
                   /\ respRuns = 1 /\ fr[p].err = respErr
                   /\ fr[p].n = 0 /\ fr[p].data = << >>
             /\ pc[p] \in {"conn", "hdr", "body"} => fr[p].err = ErrNil)
    /\ [][\A p \in Procs :
             /\ (pc[p] = "f" /\ pc'[p] # "f") =>
                   /\ pc'[p] = "checked"
                   /\ Len(inb) - Len(inb') <= RespLen
                   /\ IsSuffix(inb', inb)
             /\ (CheckFailedFor(p) /\ pc'[p] # pc[p]) =>
                   /\ pc'[p] = "idle"
                   /\ inb' = inb
                   /\ Len(hist') = Len(hist) + 1
                   /\ LET h == hist'[Len(hist')] IN
                         /\ h.op = "Read" /\ h.call = fr[p].call
                         /\ h.err = respErr /\ h.n = 0 /\ h.data = << >>]_vars

\* On a udpConn the only Read so far ran the check, which found a wrong
\* version, and returned that error with zero bytes while a whole frame was
\* waiting on the transport.
C16_Witness ==
    /\ kind = "udp" /\ respRuns = 1 /\ respErr = ErrBadVersion
    /\ Len(hist) = 1
    /\ hist[1].op = "Read" /\ hist[1].err = ErrBadVersion /\ hist[1].n = 0
    /\ inb = <<0, 3, 7, 8, 9>>

\* What the claim says of a response stream whose unread bytes are bs when
\* the check reads it: rec is what of the record has arrived.
Classified(bs) ==
    LET rec == SubSeq(bs, 1, Min(2, Len(bs))) IN
    IF Len(rec) = 0 THEN ErrEOF
    ELSE IF Len(rec) = 1 THEN ErrUnexpectedEOF
    ELSE IF rec[1] # 1 THEN ErrBadVersion
    ELSE IF rec = <<1, 5>> THEN "5 forbidden"
    ELSE IF rec[2] # 0 THEN ToString(rec[2]) \o " " \o StatusText(rec[2])
    ELSE ErrNil

\* C17: readResponse classifies a fully read response record by version
\* first: a version other than the supported one yields BadVersion whatever
\* the status; the supported version with a status other than OK yields
\* "<code> <text>" ("5 forbidden" for status 5); the supported version with
\* status OK yields no error; a read error or short stream is returned
\* unchanged. Stated of every step in which the check runs, on the bytes the
\* transport held before the step.
C17_ResponseClassifiedVersionFirst ==
    [][respRuns' # respRuns =>
          /\ respRuns' = respRuns + 1
          /\ respErr' = Classified(inb)
          /\ \E p \in Procs : pc[p] = "f" /\ fr'[p].err = Classified(inb)]_vars

\* The check read {version 1, status 5} and the Read returned "5 forbidden".
C17_Witness ==
    /\ respRuns = 1 /\ respErr = "5 forbidden"
    /\ \E i \in DOMAIN hist : hist[i].err = "5 forbidden" /\ hist[i].n = 0

(***************************************************************************)
(* Properties of the scratch buffers                                       *)
(***************************************************************************)
\* The positions between bufpool.Get and the deferred bufpool.Put.
PoolPcs == {"put", "bwrite"}

\* C18: every scratch buffer acquired from the pool by udpConn.Read,
\* bindUDPConn.Read or bindUDPConn.Write is returned exactly once before the
\* call returns, on success and on error: the buffers checked out are those
\* of the calls that are between Get and their return, one each, so that
\* between calls none is checked out.
C18_ScratchBuffersReturned ==
    /\ pool = Cardinality({p \in Procs : pc[p] \in PoolPcs})
    /\ (\A p \in Procs : pc[p] = "idle") => pool = 0

\* On a bindUDPConn a Write that the transport cut short and a Read whose
\* frame ended early, taken through the scratch buffer, have both returned
\* their errors, and no buffer is checked out.
C18_Witness ==
    /\ kind = "bindudp" /\ pool = 0 /\ pc[Caller] = "idle"
    /\ \E i, j \in DOMAIN hist :
          /\ IsWrite(hist[i]) /\ hist[i].err = ErrTransport
          /\ IsRead(hist[j]) /\ hist[j].path = "scratch"
          /\ hist[j].err = ErrUnexpectedEOF

(***************************************************************************)
(* Readers and writers on one connection, the peer answering the header    *)
(***************************************************************************)
\* The peer sends its response, and the frames after it, once the request
\* header has reached it.
PeerResponds == IsPrefix(hdr0, Wire) /\ Deliver

\* One goroutine reads (concurrent framed Reads would split each other's
\* frames); two write.
DuplexReaders == {"r1"}

\* A good response or one with a wrong version, then three frames.
DuplexResponses == {<<1, 0>>, <<2, 0>>}
DuplexTail == <<0, 3, 7, 8, 9, 0, 1, 9, 0, 2, 8, 7>>

\* tcpConn / udpConn wrapped with a buffer that holds the request header or
\* is empty; nothing has arrived yet.
InitDuplex ==
    /\ InitCommon
    /\ kind \in {"tcp", "udp"}
    /\ localAddr = NoAddr /\ remoteAddr = NoAddr /\ md = NoMd
    /\ wbufNil = FALSE
    /\ hdr0 \in {<< >>, Header}
    /\ wbuf = hdr0
    /\ inb = << >> /\ closed = FALSE
    /\ peer \in {<<r, DuplexTail>> : r \in DuplexResponses}
    /\ loop = FALSE /\ faulty = FALSE

\* The steps of a Read after entry.
ReadStep(p) ==
    \/ once_Do(p)
    \/ once_Lock(p)
    \/ once_F(p)
    \/ Read_Checked(p)
    \/ tcpConn_Read_Conn(p)
    \/ udpConn_Read_Hdr(p)
    \/ udpConn_Read_Body(p)
    \/ Read_Put(p)

NextDuplex ==
    \/ \E p \in DuplexReaders :
          \/ \E blen \in ReadLens : Read_Call(p, blen)
          \/ ReadStep(p)
    \/ \E p \in Writers :
          \/ \E b \in SmallPayloads : tcpConn_Write_Call(p, b)
          \/ \E b \in SmallPayloads : udpConn_Write_Call(p, b)
          \/ WriteStep(p)
    \/ PeerResponds

\* Every call that has started keeps running and the peer answers; nothing
\* obliges a caller to start a call.
SpecDuplex ==
    /\ InitDuplex /\ [][NextDuplex]_vars
    /\ \A p \in DuplexReaders : WF_vars(ReadStep(p))
    /\ \A p \in Writers : WF_vars(WriteStep(p))
    /\ WF_vars(PeerResponds)

\* A Read is in the one-time function, waiting for a response that has not
\* arrived, and a Write has started while the header is still unsent.
ReadWaitsWriteStarts ==
    /\ hdr0 # << >> /\ out = << >> /\ respRuns = 0
    /\ \E r \in DuplexReaders : pc[r] = "f"
    /\ \E w \in Writers : pc[w] # "idle"

\* C19: Read never acquires the write lock and Write never waits on the
\* one-time check: the lock is held by writers only, a Write that waits for
\* the free lock, or holds it, can always take its next step whatever the
\* readers are doing, and from the moment a Read waits in the check while a
\* Write has started with the header unsent, the header is sent, the
\* response is read and every call in progress returns.
C19_ReadDoesNotBlockWrite ==
    /\ [](mu \in Writers \cup {NoProc})
    /\ [](\A w \in Writers :
             (pc[w] \in LockedPcs \/ (pc[w] = "lock" /\ mu = NoProc))
                => ENABLED WriteStep(w))
    /\ ReadWaitsWriteStarts
          ~> (/\ respRuns = 1 /\ IsPrefix(hdr0, Wire)
              /\ \A p \in DuplexReaders \cup Writers : pc[p] = "idle")

\* The Read started first, the Write that carried the header returned first,
\* and the Read returned payload bytes after the good response.
C19_Witness ==
    /\ hdr0 = Header /\ respRuns = 1 /\ respErr = ErrNil
    /\ \E i, j \in DOMAIN hist :
          /\ i < j
          /\ IsWrite(hist[i]) /\ hist[i].path = "merged"
          /\ IsRead(hist[j]) /\ hist[j].call < hist[i].call
          /\ hist[j].n > 0

(***************************************************************************)
(* Properties of the rejected write                                        *)
(***************************************************************************)
\* The step is the return of a Write rejected as too large.
RejectStep ==
    /\ Len(hist') = Len(hist) + 1
    /\ hist'[Len(hist')].err = ErrTooLarge

\* Every Write so far was rejected as too large.
OnlyRejectedWrites ==
    /\ \A i \in DOMAIN hist : IsWrite(hist[i]) => hist[i].err = ErrTooLarge
    /\ \A p \in Procs : pc[p] \notin LockedPcs \cup {"lock"}

\* C20: a udpConn.Write rejected as too large leaves the connection's write
\* state unchanged: the rejecting step changes neither the buffer, nor the
\* lock, nor the transport; while only rejected Writes have been made the
\* pending header holds what it was wrapped with; and the first transport
\* write, made by the next valid Write, is the single write of H||len(P)||P.
C20_RejectedWriteKeepsHeader ==
    /\ [][RejectStep => UNCHANGED <<wbuf, mu, out, inb, pool>>]_vars
    /\ [](kind = "udp" =>
             /\ OnlyRejectedWrites => (wbuf = hdr0 /\ out = << >>)
             /\ (hdr0 # << >> /\ out # << >>) =>
                   /\ out[1].part = "merged"
                   /\ out[1].bytes =
                         hdr0 \o FrameOf(CallPayload(out[1].call)))

\* A Write of 65536 bytes was rejected on a connection holding the header,
\* and the Write after it sent the header, the length and its payload in one
\* transport write.
C20_Witness ==
    /\ kind = "udp" /\ hdr0 = Header /\ Len(hist) = 2
    /\ Len(hist[1].b) = 65536 /\ hist[1].err = ErrTooLarge
    /\ hist[2].path = "merged" /\ hist[2].err = ErrNil
    /\ Len(out) = 1 /\ out[1].bytes = Header \o FrameOf(hist[2].b)

(***************************************************************************)
(* Properties of the payload read                                          *)
(***************************************************************************)
\* The count and the error with which caller p leaves the payload read: in
\* its record while the scratch buffer is still to be put back, in the
\* history once it has returned.
BodyCount(p) ==
    IF pc'[p] = "put" THEN fr'[p].n ELSE hist'[Len(hist')].n
BodyErr(p) ==
    IF pc'[p] = "put" THEN fr'[p].err ELSE hist'[Len(hist')].err

\* C21: a framed Read (udpConn.Read, bindUDPConn.Read) whose payload read
\* fails part-way never reports a byte count larger than the number of
\* payload bytes it received from the transport, whether the caller's buffer
\* holds the whole datagram or is smaller: in the step that reads the
\* payload and ends with an error, the count is at most the number of bytes
\* the step took from the transport.
C21_PartialReadCountWithinReceived ==
    [][\A p \in Procs :
          (pc[p] = "body" /\ pc'[p] # "body" /\ BodyErr(p) # ErrNil)
              => BodyCount(p) <= Len(inb) - Len(inb')]_vars

====
